---- MODULE Spec2Model ----
(***************************************************************************)
(* A model of the BLE GATT server wrappers BLEService and BLEDescriptor   *)
(* (cpp_utils/BLEService.cpp, cpp_utils/BLEDescriptor.cpp).               *)
(*                                                                         *)
(* One service owns a map of characteristics; each characteristic owns    *)
(* descriptors.  An application thread calls the public operations, the   *)
(* stack's callback context delivers events to the service, which first   *)
(* runs its own switch and then forwards the event to the characteristics *)
(* of its map and through them to their descriptors.                      *)
(***************************************************************************)
EXTENDS Integers, Sequences, FiniteSets, TLC

\* Largest attribute handle the stack hands out in the model (uint16_t in the code).
MaxHandle == 2

\* Size of a descriptor's value buffer, scaled down from the vendor header's value.
ESP_GATT_MAX_ATTR_LEN == 2

NULL == "nullptr"

\* The characteristic objects of the application; C3 has the UUID of C1.
Chars == {"C1", "C2", "C3"}

\* The descriptor objects of the application; both have the same UUID.
Descs == {"D1", "D2"}

Handles == 0..MaxHandle

\* The handles the stack gives to attributes
AttrHandles == 1..MaxHandle

\* The byte values written in the model.
Bytes == {"A", "B"}

ServiceUUID == "SU"

CharUUIDs == {"U1", "U2"}

DescUUIDs == {"UD", "UX"}

Status == {"ESP_GATT_OK", "ESP_GATT_ERROR"}

ErrRc == {"ESP_OK", "ESP_FAIL"}

\* BLECharacteristic::getUUID
CharUUID(c) == IF c = "C2" THEN "U2" ELSE "U1"

\* BLEDescriptor::getUUID
getUUID(d) == "UD"

\* The characteristic whose descriptor map holds descriptor d.
DescContainer(d) == IF d = "D1" THEN "C1" ELSE "C2"

\* Iteration order of the characteristic map (its key order).
CharRank(c) == CASE c = "C1" -> 1 [] c = "C2" -> 2 [] OTHER -> 3

VARIABLES
  m_handle,                    \* BLEService::m_handle
  m_gatts_if,                  \* BLEService::m_gatts_if
  m_serializeMutex,            \* BLEService::m_serializeMutex: "free" or "taken"
  m_characteristicMap,         \* the characteristics of the map (looked up by UUID)
  m_handleMap,                 \* the map's index by handle
  m_lastCreatedCharacteristic, \* BLEService::m_lastCreatedCharacteristic
  char_handle,                 \* BLECharacteristic::m_handle of each characteristic
  char_service,                \* BLECharacteristic::m_pService of each characteristic
  desc_handle,                 \* BLEDescriptor::m_handle of each descriptor
  m_pCharacteristic,           \* BLEDescriptor::m_pCharacteristic of each descriptor
  attr_len,                    \* BLEDescriptor::m_value.attr_len
  attr_value,                  \* BLEDescriptor::m_value.attr_value ("?": never written)
  pc,                          \* where the application thread is
  iter,                        \* the characteristic start() handles next
  asked,                       \* the characteristics the last call of start() has asked, in order
  createEvtSeen,               \* a matching service-created event came since create() was called
  calls,                       \* the calls the last step made to the stack and to the mutex
  event,                       \* the event the callback context has been called with
  crashed                      \* a null pointer was dereferenced: the program has stopped

vars == <<m_handle, m_gatts_if, m_serializeMutex, m_characteristicMap, m_handleMap,
          m_lastCreatedCharacteristic, char_handle, char_service, desc_handle,
          m_pCharacteristic, attr_len, attr_value, pc, iter, asked, createEvtSeen, calls,
          event, crashed>>

svcVars == <<m_handle, m_gatts_if, m_serializeMutex, m_characteristicMap, m_handleMap,
             m_lastCreatedCharacteristic, char_handle, char_service, createEvtSeen>>

descVars == <<desc_handle, m_pCharacteristic, attr_len, attr_value>>

\* BLEService::BLEService and BLEDescriptor::BLEDescriptor
Constructed ==
  /\ m_handle = 0
  /\ m_gatts_if = 0
  /\ m_serializeMutex = "free"
  /\ m_characteristicMap = {}
  /\ m_handleMap = [h \in Handles |-> NULL]
  /\ m_lastCreatedCharacteristic = NULL
  /\ char_handle = [c \in Chars |-> 0]
  /\ char_service = [c \in Chars |-> NULL]
  /\ desc_handle = [d \in Descs |-> 0]
  /\ m_pCharacteristic = [d \in Descs |-> NULL]
  /\ attr_len = [d \in Descs |-> 0]
  /\ attr_value = [d \in Descs |-> [i \in 1..ESP_GATT_MAX_ATTR_LEN |-> "?"]]
  /\ pc = "idle"
  /\ iter = NULL
  /\ asked = <<>>
  /\ createEvtSeen = FALSE
  /\ calls = <<>>

\* No event is being handled
NoEvent == [type |-> "none"]

Init == Constructed /\ event = NoEvent /\ crashed = FALSE

\* The application thread runs: the program has not stopped and the callback context
\* is not in the middle of an event.
AppRuns == ~crashed /\ event = NoEvent


----------------------------------------------------------------------------
(* The characteristic map and the mutex *)

\* BLECharacteristicMap::getByUUID
getByUUID(map, uuid) ==
  IF \E c \in map : CharUUID(c) = uuid
    THEN CHOOSE c \in map : CharUUID(c) = uuid /\ \A o \in map : CharUUID(o) = uuid => CharRank(c) <= CharRank(o)
    ELSE NULL

\* BLECharacteristicMap::setByUUID
setByUUID(map, c) == map \cup {c}

\* BLECharacteristicMap::setByHandle
setByHandle(hmap, handle, c) == [hmap EXCEPT ![handle] = c]

\* BLECharacteristicMap::getFirst
getFirst(map) ==
  IF map = {} THEN NULL ELSE CHOOSE c \in map : \A o \in map : CharRank(c) <= CharRank(o)

\* BLECharacteristicMap::getNext
getNext(map, cur) ==
  LET rest == {c \in map : CharRank(c) > CharRank(cur)} IN
  IF rest = {} THEN NULL ELSE CHOOSE c \in rest : \A o \in rest : CharRank(c) <= CharRank(o)

\* BLEService::getCharacteristic
getCharacteristic(uuid) == getByUUID(m_characteristicMap, uuid)

\* BLEService::getLastCreatedCharacteristic
getLastCreatedCharacteristic == m_lastCreatedCharacteristic

\* FreeRTOS::Semaphore::give
give(mutex) == "free"

\* ESP_LOGE(LOG_TAG, ...)
ESP_LOGE(msg) == [api |-> "ESP_LOGE", msg |-> msg]

\* The log lines after a call of the stack returned errRc
LogIfFailed(errRc, msg) == IF errRc # "ESP_OK" THEN <<ESP_LOGE(msg)>> ELSE <<>>

\* The record of a give() in the log of calls.
GiveCall(mutex) == [api |-> "give", released |-> (mutex = "taken")]

\* The record of m_characteristicMap.handleGATTServerEvent(event, gatts_if, param) in the
\* log of calls
ForwardCall == [api |-> "m_characteristicMap.handleGATTServerEvent"]

----------------------------------------------------------------------------
(* BLEDescriptor *)

\* memcpy(m_value.attr_value, data, length)
memcpy(buf, data, length) ==
  [i \in 1..ESP_GATT_MAX_ATTR_LEN |-> IF i <= length THEN data[i] ELSE buf[i]]

\* The descriptor's fields as a record, the calls it has made and whether it crashed.
DescState(d) ==
  [handle |-> desc_handle[d], owner |-> m_pCharacteristic[d],
   len |-> attr_len[d], value |-> attr_value[d], calls |-> <<>>, crash |-> FALSE]

\* setValue without the test of the length
setValue_NoLimit(ds, data) ==
  [ds EXCEPT !.len = Len(data), !.value = memcpy(ds.value, data, Len(data))]

\* BLEDescriptor::setValue(uint8_t* data, size_t length)
setValue(ds, data) ==
  IF Len(data) > ESP_GATT_MAX_ATTR_LEN
    THEN [ds EXCEPT !.calls = Append(@, ESP_LOGE("Size too large"))]
    ELSE [ds EXCEPT !.len = Len(data), !.value = memcpy(ds.value, data, Len(data))]

\* BLEDescriptor::getLength
getLength(ds) == ds.len

\* BLEDescriptor::getValue, as far as the response copies it
getValue(ds, length) == [i \in 1..length |-> ds.value[i]]

\* BLEDescriptor::setHandle
setHandle(ds, handle) == [ds EXCEPT !.handle = handle]

\* BLEDescriptor::getHandle
getHandle(d) == desc_handle[d]

\* ::esp_ble_gatts_send_response(gatts_if, conn_id, trans_id, ESP_GATT_OK, &rsp)
SendResponse(gatts_if, conn_id, trans_id, len, handle, offset, value) ==
  [api |-> "esp_ble_gatts_send_response", gatts_if |-> gatts_if, conn_id |-> conn_id,
   trans_id |-> trans_id, status |-> "ESP_GATT_OK", len |-> len, handle |-> handle,
   offset |-> offset, auth_req |-> "ESP_GATT_AUTH_REQ_NONE", value |-> value]

\* The descriptor-added case without the test of the last created characteristic
DescrAddCharDescrEvt_AnyOwner(ds, d, e, serviceHandle, debugLog) ==
  IF debugLog /\ ds.owner = NULL
    THEN [ds EXCEPT !.crash = TRUE]
    ELSE IF /\ ds.owner # NULL
            /\ getUUID(d) = e.char_uuid
            /\ serviceHandle = e.service_handle
           THEN setHandle(ds, e.attr_handle)
           ELSE ds

\* case ESP_GATTS_ADD_CHAR_DESCR_EVT of BLEDescriptor::handleGATTServerEvent.
\* debugLog: the ESP_LOGD lines are compiled in; they dereference m_pCharacteristic
\* before it is tested.
DescrAddCharDescrEvt(ds, d, e, serviceHandle, debugLog) ==
  IF debugLog /\ ds.owner = NULL
    THEN [ds EXCEPT !.crash = TRUE]
    ELSE IF /\ ds.owner # NULL
            /\ getUUID(d) = e.char_uuid
            /\ serviceHandle = e.service_handle
            /\ ds.owner = getLastCreatedCharacteristic
           THEN setHandle(ds, e.attr_handle)
           ELSE ds

\* The write case with a response that is filled in before the value is set
DescrWriteEvt_StaleLength(ds, e) ==
  IF e.handle = ds.handle
    THEN LET w == setValue(ds, e.value) IN
         [w EXCEPT !.calls = Append(@,
            SendResponse(e.gatts_if, e.conn_id, e.trans_id, getLength(ds), w.handle, 0,
                         getValue(ds, getLength(ds))))]
    ELSE ds

\* case ESP_GATTS_WRITE_EVT of BLEDescriptor::handleGATTServerEvent
DescrWriteEvt(ds, e) ==
  IF e.handle = ds.handle
    THEN LET w == setValue(ds, e.value) IN
         [w EXCEPT !.calls = Append(@,
            SendResponse(e.gatts_if, e.conn_id, e.trans_id, getLength(w), w.handle, 0,
                         getValue(w, getLength(w))))]
    ELSE ds

\* case ESP_GATTS_READ_EVT of BLEDescriptor::handleGATTServerEvent
DescrReadEvt(ds, e) ==
  IF e.handle = ds.handle /\ e.need_rsp
    THEN [ds EXCEPT !.calls = Append(@,
            SendResponse(e.gatts_if, e.conn_id, e.trans_id, getLength(ds), e.handle, 0,
                         getValue(ds, getLength(ds))))]
    ELSE ds

\* BLEDescriptor::handleGATTServerEvent
DescrHandleGATTServerEvent(d, e, serviceHandle, debugLog) ==
  CASE e.type = "ESP_GATTS_ADD_CHAR_DESCR_EVT" ->
         DescrAddCharDescrEvt(DescState(d), d, e, serviceHandle, debugLog)
    [] e.type = "ESP_GATTS_WRITE_EVT" -> DescrWriteEvt(DescState(d), e)
    [] e.type = "ESP_GATTS_READ_EVT" -> DescrReadEvt(DescState(d), e)
    [] OTHER -> DescState(d)

----------------------------------------------------------------------------
(* BLEService *)

\* The fields of the service that its event handler changes, the calls it has made and
\* the way it leaves the switch: every case ends in a break.
ServiceState ==
  [m_handle |-> m_handle, mutex |-> m_serializeMutex, char_handle |-> char_handle,
   handleMap |-> m_handleMap, calls |-> <<>>, exit |-> "break"]

\* BLEService::setHandle
BLEService_setHandle(st, handle) == [st EXCEPT !.m_handle = handle]

\* The service-created case without the test of the UUID
ServiceCreateEvt_AnyUuid(st, uuidEquals, service_handle) ==
  [BLEService_setHandle(st, service_handle) EXCEPT
     !.mutex = give(st.mutex), !.calls = Append(@, GiveCall(st.mutex))]

\* case ESP_GATTS_CREATE_EVT of BLEService::handleGATTServerEvent
ServiceCreateEvt(st, uuidEquals, service_handle) ==
  IF uuidEquals
    THEN [BLEService_setHandle(st, service_handle) EXCEPT
            !.mutex = give(st.mutex), !.calls = Append(@, GiveCall(st.mutex))]
    ELSE st

\* The characteristic-added case without pCharacteristic->setHandle()
ServiceAddCharEvt_NoSetHandle(st, e) ==
  IF st.m_handle = e.service_handle
    THEN LET pCharacteristic == getCharacteristic(e.char_uuid) IN
         IF pCharacteristic = NULL
           THEN [st EXCEPT !.mutex = give(st.mutex),
                           !.calls = @ \o <<ESP_LOGE("Expected to find characteristic"),
                                            GiveCall(st.mutex)>>]
           ELSE [st EXCEPT !.handleMap = setByHandle(@, e.attr_handle, pCharacteristic),
                           !.mutex = give(st.mutex),
                           !.calls = Append(@, GiveCall(st.mutex))]
    ELSE ServiceCreateEvt(st, e.aliasUuidEquals, e.attr_handle)

\* The characteristic-added case with a return where the characteristic is not found
ServiceAddCharEvt_ReturnWhenNotFound(st, e) ==
  IF st.m_handle = e.service_handle
    THEN LET pCharacteristic == getCharacteristic(e.char_uuid) IN
         IF pCharacteristic = NULL
           THEN [st EXCEPT !.mutex = give(st.mutex),
                           !.calls = @ \o <<ESP_LOGE("Expected to find characteristic"),
                                            GiveCall(st.mutex)>>,
                           !.exit = "return"]
           ELSE [st EXCEPT !.char_handle[pCharacteristic] = e.attr_handle,
                           !.handleMap = setByHandle(@, e.attr_handle, pCharacteristic),
                           !.mutex = give(st.mutex),
                           !.calls = Append(@, GiveCall(st.mutex))]
    ELSE ServiceCreateEvt(st, e.aliasUuidEquals, e.attr_handle)

\* case ESP_GATTS_ADD_CHAR_EVT of BLEService::handleGATTServerEvent.  When the service
\* handle differs the case has no break and runs into ESP_GATTS_CREATE_EVT, which reads
\* the add_char parameters through the create member of the union: create.service_handle
\* lies where add_char.attr_handle does, and e.aliasUuidEquals tells whether the bytes
\* read as create.service_id.id.uuid equal the service's UUID.
ServiceAddCharEvt(st, e) ==
  IF st.m_handle = e.service_handle
    THEN LET pCharacteristic == getCharacteristic(e.char_uuid) IN
         IF pCharacteristic = NULL
           THEN [st EXCEPT !.mutex = give(st.mutex),
                           !.calls = @ \o <<ESP_LOGE("Expected to find characteristic"),
                                            GiveCall(st.mutex)>>]
           ELSE [st EXCEPT !.char_handle[pCharacteristic] = e.attr_handle,
                           !.handleMap = setByHandle(@, e.attr_handle, pCharacteristic),
                           !.mutex = give(st.mutex),
                           !.calls = Append(@, GiveCall(st.mutex))]
    ELSE ServiceCreateEvt(st, e.aliasUuidEquals, e.attr_handle)

\* The switch with a default case that gives the mutex
ServiceSwitch_GiveAlways(e) ==
  CASE e.type = "ESP_GATTS_ADD_CHAR_EVT" -> ServiceAddCharEvt(ServiceState, e)
    [] e.type = "ESP_GATTS_CREATE_EVT" ->
         ServiceCreateEvt(ServiceState, e.uuid = ServiceUUID, e.service_handle)
    [] OTHER -> [ServiceState EXCEPT !.mutex = give(m_serializeMutex),
                                     !.calls = Append(@, GiveCall(m_serializeMutex))]

\* The switch of BLEService::handleGATTServerEvent
ServiceSwitch(e) ==
  CASE e.type = "ESP_GATTS_ADD_CHAR_EVT" -> ServiceAddCharEvt(ServiceState, e)
    [] e.type = "ESP_GATTS_CREATE_EVT" ->
         ServiceCreateEvt(ServiceState, e.uuid = ServiceUUID, e.service_handle)
    [] OTHER -> ServiceState

\* BLECharacteristicMap::handleGATTServerEvent and BLECharacteristic::handleGATTServerEvent:
\* the descriptors the event reaches, in the order it reaches them.
ForwardOrder == <<"D1", "D2">>

Forwarded(map) == SelectSeq(ForwardOrder, LAMBDA d : DescContainer(d) \in map)

RECURSIVE ConcatCalls(_, _)
ConcatCalls(res, order) ==
  IF order = <<>> THEN <<>> ELSE res[Head(order)].calls \o ConcatCalls(res, Tail(order))

\* The stack calls the callback context with event e
Deliver(e) ==
  /\ AppRuns
  /\ event' = e
  /\ UNCHANGED <<svcVars, descVars, pc, iter, asked, calls, crashed>>

\* BLEService::handleGATTServerEvent, run by the callback context
HandleGATTServerEvent ==
  /\ ~crashed /\ event # NoEvent
  /\ \E debugLog \in BOOLEAN :
       LET e   == event
           st  == ServiceSwitch(e)
           fwd == IF st.exit = "break" THEN Forwarded(m_characteristicMap) ELSE <<>>
           res == [d \in Descs |->
                     IF \E i \in 1..Len(fwd) : fwd[i] = d
                       THEN DescrHandleGATTServerEvent(d, e, st.m_handle, debugLog)
                       ELSE DescState(d)]
       IN IF \E d \in Descs : res[d].crash
            THEN /\ crashed' = TRUE
                 /\ UNCHANGED <<svcVars, descVars, pc, iter, asked, calls, event>>
            ELSE /\ m_handle' = st.m_handle
                 /\ m_serializeMutex' = st.mutex
                 /\ char_handle' = st.char_handle
                 /\ m_handleMap' = st.handleMap
                 /\ createEvtSeen' = (createEvtSeen \/
                      (e.type = "ESP_GATTS_CREATE_EVT" /\ e.uuid = ServiceUUID))
                 /\ desc_handle' = [d \in Descs |-> res[d].handle]
                 /\ attr_len' = [d \in Descs |-> res[d].len]
                 /\ attr_value' = [d \in Descs |-> res[d].value]
                 /\ calls' = st.calls
                              \o (IF st.exit = "break" THEN <<ForwardCall>> ELSE <<>>)
                              \o ConcatCalls(res, fwd)
                 /\ event' = NoEvent
                 /\ UNCHANGED <<m_gatts_if, m_characteristicMap, m_lastCreatedCharacteristic,
                                char_service, m_pCharacteristic, pc, iter, asked,
                                crashed>>

----------------------------------------------------------------------------
(* The operations the application thread calls *)

\* BLEService::executeCreate up to m_serializeMutex.take(): the thread waits there
\* while the mutex is taken.
ExecuteCreateEnter(gatts_if) ==
  /\ AppRuns /\ pc = "idle"
  /\ m_gatts_if' = gatts_if
  /\ createEvtSeen' = FALSE
  /\ pc' = "executeCreate"
  /\ calls' = <<>>
  /\ UNCHANGED <<m_handle, m_serializeMutex, m_characteristicMap, m_handleMap,
                 m_lastCreatedCharacteristic, char_handle, char_service, descVars,
                 iter, asked, crashed, event>>

\* FreeRTOS::Semaphore::take returns once the mutex is free
CanTake(mutex) == mutex = "free"

\* executeCreate without m_serializeMutex.take()
ExecuteCreateMutex_NoTake(mutex) == mutex

\* The mutex after executeCreate has passed m_serializeMutex.take("executeCreate")
ExecuteCreateMutex(mutex) == "taken"

\* BLEService::executeCreate from m_serializeMutex.take() to its return
ExecuteCreateTake(errRc) ==
  /\ AppRuns /\ pc = "executeCreate"
  /\ CanTake(m_serializeMutex)
  /\ m_serializeMutex' = ExecuteCreateMutex(m_serializeMutex)
  /\ calls' = <<[api |-> "take"],
                [api |-> "esp_ble_gatts_create_service", gatts_if |-> m_gatts_if,
                 uuid |-> ServiceUUID, num_handle |-> 10, errRc |-> errRc]>>
                \o LogIfFailed(errRc, "esp_ble_gatts_create_service")
  /\ pc' = "idle"
  /\ UNCHANGED <<m_handle, m_gatts_if, m_characteristicMap, m_handleMap,
                 m_lastCreatedCharacteristic, char_handle, char_service, descVars,
                 iter, asked, createEvtSeen, crashed, event>>

\* addCharacteristic without the test for a characteristic of the same UUID
AddCharacteristicMap_NoCheck(map, c) == setByUUID(map, c)

\* The map after BLEService::addCharacteristic(pCharacteristic)
AddCharacteristicMap(map, c) ==
  IF getByUUID(map, CharUUID(c)) # NULL THEN map ELSE setByUUID(map, c)

\* BLEService::addCharacteristic
addCharacteristic(c) ==
  /\ AppRuns /\ pc = "idle"
  /\ m_characteristicMap' = AddCharacteristicMap(m_characteristicMap, c)
  /\ calls' = IF getByUUID(m_characteristicMap, CharUUID(c)) # NULL
                THEN <<ESP_LOGE("already have one with this UUID")>> ELSE <<>>
  /\ UNCHANGED <<m_handle, m_gatts_if, m_serializeMutex, m_handleMap,
                 m_lastCreatedCharacteristic, char_handle, char_service, descVars,
                 pc, iter, asked, createEvtSeen, crashed, event>>

\* BLEService::start up to the first characteristic
start(errRc) ==
  /\ AppRuns /\ pc = "idle"
  /\ calls' = <<[api |-> "esp_ble_gatts_start_service", handle |-> m_handle, errRc |-> errRc]>>
                \o LogIfFailed(errRc, "esp_ble_gatts_start_service")
  /\ IF errRc # "ESP_OK"
       THEN UNCHANGED <<pc, iter>>
       ELSE /\ iter' = getFirst(m_characteristicMap)
            /\ pc' = IF getFirst(m_characteristicMap) = NULL THEN "idle" ELSE "start"
  /\ asked' = <<>>
  /\ UNCHANGED <<svcVars, descVars, crashed, event>>

\* BLECharacteristic::executeCreate(pService): remembers the service and asks the stack
\* to add the characteristic.
CharExecuteCreateCall(c) ==
  [api |-> "esp_ble_gatts_add_char", service_handle |-> m_handle, uuid |-> CharUUID(c)]

\* A round of the loop that does not set m_lastCreatedCharacteristic
startLoop_LastCreatedNotSet ==
  /\ AppRuns /\ pc = "start" /\ iter # NULL
  /\ char_service' = [char_service EXCEPT ![iter] = "S"]
  /\ calls' = <<CharExecuteCreateCall(iter)>>
  /\ asked' = Append(asked, iter)
  /\ iter' = getNext(m_characteristicMap, iter)
  /\ pc' = IF getNext(m_characteristicMap, iter) = NULL THEN "idle" ELSE "start"
  /\ UNCHANGED <<m_handle, m_gatts_if, m_serializeMutex, m_characteristicMap, m_handleMap,
                 m_lastCreatedCharacteristic, char_handle, descVars, createEvtSeen,
                 crashed, event>>

\* One round of the while loop of BLEService::start
startLoop ==
  /\ AppRuns /\ pc = "start" /\ iter # NULL
  /\ m_lastCreatedCharacteristic' = iter
  /\ char_service' = [char_service EXCEPT ![iter] = "S"]
  /\ calls' = <<CharExecuteCreateCall(iter)>>
  /\ asked' = Append(asked, iter)
  /\ iter' = getNext(m_characteristicMap, iter)
  /\ pc' = IF getNext(m_characteristicMap, iter) = NULL THEN "idle" ELSE "start"
  /\ UNCHANGED <<m_handle, m_gatts_if, m_serializeMutex, m_characteristicMap, m_handleMap,
                 char_handle, descVars, createEvtSeen, crashed, event>>

\* executeCreate without the test of m_handle
executeCreate_NoHandleTest(d, c, errRc) ==
  /\ AppRuns /\ pc \in {"idle", "start"}
  /\ IF char_service[c] = NULL
       THEN /\ m_pCharacteristic' = [m_pCharacteristic EXCEPT ![d] = c]
            /\ crashed' = TRUE
            /\ UNCHANGED <<svcVars, desc_handle, attr_len, attr_value, pc, iter,
                           asked, calls, event>>
       ELSE /\ m_pCharacteristic' = [m_pCharacteristic EXCEPT ![d] = c]
            /\ calls' = <<[api |-> "esp_ble_gatts_add_char_descr",
                           service_handle |-> m_handle, uuid |-> getUUID(d),
                           errRc |-> errRc]>>
                         \o LogIfFailed(errRc, "esp_ble_gatts_add_char_descr")
            /\ UNCHANGED <<svcVars, desc_handle, attr_len, attr_value, pc, iter,
                           asked, crashed, event>>

\* BLEDescriptor::executeCreate(pCharacteristic); pCharacteristic->getService() is
\* dereferenced, which is a null pointer until the characteristic was created.
executeCreate(d, c, errRc) ==
  /\ AppRuns /\ pc \in {"idle", "start"}
  /\ IF desc_handle[d] # 0
       THEN /\ calls' = <<ESP_LOGE("Descriptor already has a handle.")>>
            /\ UNCHANGED <<svcVars, descVars, pc, iter, asked, crashed, event>>
       ELSE IF char_service[c] = NULL
              THEN /\ m_pCharacteristic' = [m_pCharacteristic EXCEPT ![d] = c]
                   /\ crashed' = TRUE
                   /\ UNCHANGED <<svcVars, desc_handle, attr_len, attr_value, pc, iter,
                                  asked, calls, event>>
              ELSE /\ m_pCharacteristic' = [m_pCharacteristic EXCEPT ![d] = c]
                   /\ calls' = <<[api |-> "esp_ble_gatts_add_char_descr",
                                  service_handle |-> m_handle, uuid |-> getUUID(d),
                                  errRc |-> errRc]>>
                                \o LogIfFailed(errRc, "esp_ble_gatts_add_char_descr")
                   /\ UNCHANGED <<svcVars, desc_handle, attr_len, attr_value, pc, iter,
                                  asked, crashed, event>>

\* BLEDescriptor::setValue called by the application
SetValue(d, data) ==
  /\ AppRuns /\ pc = "idle"
  /\ attr_len' = [attr_len EXCEPT ![d] = setValue(DescState(d), data).len]
  /\ attr_value' = [attr_value EXCEPT ![d] = setValue(DescState(d), data).value]
  /\ calls' = setValue(DescState(d), data).calls
  /\ UNCHANGED <<svcVars, desc_handle, m_pCharacteristic, pc, iter, asked, crashed,
                 event>>

----------------------------------------------------------------------------------------------------------------------------------------------
(* The events of the stack *)

RECURSIVE SeqsUpTo(_, _)
SeqsUpTo(S, n) ==
  IF n = 0 THEN {<<>>}
  ELSE SeqsUpTo(S, n - 1) \cup {Append(q, x) : q \in {r \in SeqsUpTo(S, n - 1) : Len(r) = n - 1}, x \in S}

\* The interfaces of the GATT server
GattsIfs == {3}

CreateEvts(status, handles, uuids) ==
  [type : {"ESP_GATTS_CREATE_EVT"}, status : status, service_handle : handles, uuid : uuids]

AddCharEvts(status, attrHandles, serviceHandles, uuids, aliases) ==
  [type : {"ESP_GATTS_ADD_CHAR_EVT"}, status : status, attr_handle : attrHandles,
   service_handle : serviceHandles, char_uuid : uuids, aliasUuidEquals : aliases]

AddCharDescrEvts(status, attrHandles, serviceHandles, uuids) ==
  [type : {"ESP_GATTS_ADD_CHAR_DESCR_EVT"}, status : status, attr_handle : attrHandles,
   service_handle : serviceHandles, char_uuid : uuids]

WriteEvts(handles, values, offsets, transIds) ==
  [type : {"ESP_GATTS_WRITE_EVT"}, gatts_if : GattsIfs, conn_id : {1}, trans_id : transIds,
   handle : handles, offset : offsets, value : values]

ReadEvts(handles, transIds) ==
  [type : {"ESP_GATTS_READ_EVT"}, gatts_if : GattsIfs, conn_id : {1}, trans_id : transIds,
   handle : handles, offset : {0}, need_rsp : BOOLEAN]

\* A value one byte longer than the buffer
TooLong == [i \in 1..(ESP_GATT_MAX_ATTR_LEN + 1) |-> "A"]

\* The values an application or a client writes
Values == SeqsUpTo(Bytes, ESP_GATT_MAX_ATTR_LEN) \cup {TooLong}

----------------------------------------------------------------------------
(* Spec: the service is created and started with up to two                 *)
(* characteristics; every service-created event and the                    *)
(* characteristic-added events of one attribute handle arrive, and events  *)
(* of the other types for descriptors that have not been created.          *)

ServiceEvents ==
  CreateEvts(Status, Handles, {ServiceUUID, "SX"})
    \cup AddCharEvts(Status, {1}, Handles, CharUUIDs, BOOLEAN)
    \cup AddCharDescrEvts({"ESP_GATT_OK"}, {1}, {0}, {"UD"})
    \cup WriteEvts({0, 1}, {<<>>}, {0}, {1})
    \cup ReadEvts({0, 1}, {1})

Next ==
  \/ \E gatts_if \in GattsIfs : ExecuteCreateEnter(gatts_if)
  \/ \E errRc \in ErrRc : ExecuteCreateTake(errRc)
  \/ \E c \in {"C1", "C2"} : addCharacteristic(c)
  \/ \E errRc \in ErrRc : start(errRc)
  \/ startLoop
  \/ \E e \in ServiceEvents : Deliver(e)
  \/ HandleGATTServerEvent

Spec == Init /\ [][Next]_vars

----------------------------------------------------------------------------
(* SpecMap: characteristics are added to the service and every             *)
(* characteristic-added event arrives.                                     *)

MapEvents ==
  CreateEvts({"ESP_GATT_OK"}, AttrHandles, {ServiceUUID})
    \cup AddCharEvts({"ESP_GATT_OK"}, Handles, Handles, CharUUIDs, {FALSE})

NextMap ==
  \/ \E c \in Chars : addCharacteristic(c)
  \/ \E e \in MapEvents : Deliver(e)
  \/ HandleGATTServerEvent

SpecMap == Init /\ [][NextMap]_vars

----------------------------------------------------------------------------
(* SpecDesc: two characteristics with one descriptor each are created;     *)
(* every descriptor-added and read event arrives.                          *)

DescEvents ==
  CreateEvts({"ESP_GATT_OK"}, {1}, {ServiceUUID})
    \cup AddCharDescrEvts({"ESP_GATT_OK"}, AttrHandles, Handles, DescUUIDs)
    \cup ReadEvts(Handles, {1})
    \cup WriteEvts(Handles, {<<>>}, {0}, {1})

NextDesc ==
  \/ \E c \in {"C1", "C2"} : addCharacteristic(c)
  \/ start("ESP_OK")
  \/ startLoop
  \/ \E d \in Descs, c \in {"C1", "C2"}, errRc \in ErrRc : executeCreate(d, c, errRc)
  \/ \E e \in DescEvents : Deliver(e)
  \/ HandleGATTServerEvent

SpecDesc == Init /\ [][NextDesc]_vars

----------------------------------------------------------------------------
(* SpecValue: one descriptor is created, set by the application and read   *)
(* and written by a client.                                                *)

ValueEvents ==
  CreateEvts({"ESP_GATT_OK"}, {1}, {ServiceUUID})
    \cup AddCharDescrEvts({"ESP_GATT_OK"}, {1}, {1}, {"UD"})
    \cup ReadEvts(AttrHandles, {1})
    \cup WriteEvts(AttrHandles, Values, {0, 1}, {1, 2})

NextValue ==
  \/ addCharacteristic("C1")
  \/ start("ESP_OK")
  \/ startLoop
  \/ executeCreate("D1", "C1", "ESP_OK")
  \/ \E data \in Values : SetValue("D1", data)
  \/ \E e \in ValueEvents : Deliver(e)
  \/ HandleGATTServerEvent

SpecValue == Init /\ [][NextValue]_vars

------------------------------------------------------------------

----------------------------------------------------------------------------
(* Properties of the steps in which the callback context handles an event *)

\* The step is one in which the handler of the event has run to its end
Handled == event # NoEvent /\ event' = NoEvent

\* The descriptors an event delivered to the service reaches
Reached == {d \in Descs : DescContainer(d) \in m_characteristicMap}

\* getValue() up to getLength()
Written(len, buf) == [i \in 1..len |-> buf[i]]

\* The responses among the calls of a step
Responses(cs) == SelectSeq(cs, LAMBDA c : c.api = "esp_ble_gatts_send_response")

----------------------------------------------------------------------------
(* Descriptor handles (SpecDesc) *)

\* Event e is a descriptor-added event that meets the four conditions of descriptor d
Qualifies(d, e) ==
  /\ e.type = "ESP_GATTS_ADD_CHAR_DESCR_EVT"
  /\ m_pCharacteristic[d] # NULL
  /\ getUUID(d) = e.char_uuid
  /\ m_handle = e.service_handle
  /\ m_pCharacteristic[d] = m_lastCreatedCharacteristic

\* C1: a descriptor's handle stays 0 until a descriptor-added event that meets all four
\* conditions (owner set, UUID equal, service handle equal, owner is the last created
\* characteristic) is delivered to it, and once it is not 0 no later step changes it.
C1_HandleAssignedOnce ==
  [][\A d \in Descs :
       /\ (desc_handle[d] = 0 /\ desc_handle'[d] # 0) =>
            /\ Handled /\ d \in Reached /\ Qualifies(d, event)
            /\ desc_handle'[d] = event.attr_handle
       /\ desc_handle[d] # 0 => desc_handle'[d] = desc_handle[d]]_vars

\* C2: when a descriptor-added event reaches two descriptors of the same UUID that are
\* owned by two characteristics of the service, the one whose owner is the last created
\* characteristic adopts the event's handle (if the UUID and the service handle match)
\* and the other one keeps its handle, so that a handle of 0 remains 0.
C2_OnlyLastCreatedAdopts ==
  [][\A d1, d2 \in Descs :
       ( /\ Handled
         /\ event.type = "ESP_GATTS_ADD_CHAR_DESCR_EVT"
         /\ d1 \in Reached /\ d2 \in Reached
         /\ getUUID(d1) = getUUID(d2)
         /\ m_pCharacteristic[d1] \in m_characteristicMap
         /\ m_pCharacteristic[d2] \in m_characteristicMap
         /\ m_pCharacteristic[d1] # m_pCharacteristic[d2]
         /\ m_pCharacteristic[d1] = m_lastCreatedCharacteristic )
       => /\ desc_handle'[d2] = desc_handle[d2]
          /\ (getUUID(d1) = event.char_uuid /\ m_handle = event.service_handle)
               => desc_handle'[d1] = event.attr_handle
          /\ ~(getUUID(d1) = event.char_uuid /\ m_handle = event.service_handle)
               => desc_handle'[d1] = desc_handle[d1]]_vars

\* Two descriptors of one UUID owned by the two characteristics of the service: the one
\* of the last created characteristic has got the handle of the event, the other one
\* has none.
C2_Witness ==
  /\ m_characteristicMap = {"C1", "C2"}
  /\ m_pCharacteristic["D1"] = "C1" /\ m_pCharacteristic["D2"] = "C2"
  /\ m_lastCreatedCharacteristic = "C2"
  /\ desc_handle["D2"] = 2 /\ desc_handle["D1"] = 0
  /\ event = NoEvent /\ calls = <<ForwardCall>> /\ ~crashed

\* C3: a read event that reaches only descriptors without a handle sends no response,
\* whatever its handle and its need_rsp flag.
C3_NoResponseWhenUnassigned ==
  [][( /\ Handled
       /\ event.type = "ESP_GATTS_READ_EVT"
       /\ \A d \in Reached : desc_handle[d] = 0 )
     => Responses(calls') = <<>>]_vars

----------------------------------------------------------------------------
(* Descriptor values (SpecValue) *)

\* C6 as claimed: on a write event whose handle is the descriptor's, the value becomes
\* the event's value and one response is sent with the event's connection and
\* transaction identifiers, the written length, the descriptor's handle and the event's
\* offset.
C6_WriteEchoesEvent ==
  [][\A d \in Descs :
       ( /\ Handled
         /\ event.type = "ESP_GATTS_WRITE_EVT"
         /\ d \in Reached /\ event.handle = desc_handle[d] )
       => /\ attr_len'[d] = Len(event.value)
          /\ Written(attr_len'[d], attr_value'[d]) = event.value
          /\ Responses(calls') =
               <<SendResponse(event.gatts_if, event.conn_id, event.trans_id,
                              Len(event.value), desc_handle[d], event.offset,
                              event.value)>>]_vars

\* C6 as amended: on a write event whose handle is the descriptor's, the value becomes
\* the event's value if it is not longer than the buffer and stays as it is otherwise,
\* and each such descriptor sends one response with the event's connection and
\* transaction identifiers, the descriptor's length after the write, the descriptor's
\* handle, offset 0 and the descriptor's value.
C6_WriteStoresAndResponds ==
  [][( Handled /\ event.type = "ESP_GATTS_WRITE_EVT" )
     => LET match == {d \in Reached : event.handle = desc_handle[d]} IN
        /\ \A d \in match :
             /\ Len(event.value) <= ESP_GATT_MAX_ATTR_LEN =>
                  /\ attr_len'[d] = Len(event.value)
                  /\ Written(attr_len'[d], attr_value'[d]) = event.value
             /\ Len(event.value) > ESP_GATT_MAX_ATTR_LEN =>
                  /\ attr_len'[d] = attr_len[d]
                  /\ attr_value'[d] = attr_value[d]
             /\ \E i \in 1..Len(calls') :
                  calls'[i] = SendResponse(event.gatts_if, event.conn_id, event.trans_id,
                                attr_len'[d], desc_handle[d], 0,
                                Written(attr_len'[d], attr_value'[d]))
        /\ Len(Responses(calls')) = Cardinality(match)]_vars

\* A descriptor with a handle whose value was replaced by a written "BA", with the
\* response to transaction 2.
C6_Witness ==
  /\ desc_handle["D1"] = 1
  /\ attr_len["D1"] = 2
  /\ Written(2, attr_value["D1"]) = <<"B", "A">>
  /\ calls = <<ForwardCall, SendResponse(3, 1, 2, 2, 1, 0, <<"B", "A">>)>>

\* C7: setValue with a value that is not longer than the maximum, the maximum included,
\* makes getLength() its length and getValue() its bytes; with a longer value it leaves
\* the buffer and the length as they are; the length is never above the maximum.
C7_SetValueBounded ==
  /\ [][\A d \in Descs : \A data \in Values :
          SetValue(d, data) =>
            IF Len(data) <= ESP_GATT_MAX_ATTR_LEN
              THEN /\ attr_len'[d] = Len(data)
                   /\ Written(attr_len'[d], attr_value'[d]) = data
              ELSE /\ attr_len'[d] = attr_len[d]
                   /\ attr_value'[d] = attr_value[d]]_vars
  /\ [](\A d \in Descs : attr_len[d] <= ESP_GATT_MAX_ATTR_LEN)

\* A value that fills the buffer is kept when a longer one is refused.
C7_Witness ==
  /\ attr_len["D1"] = ESP_GATT_MAX_ATTR_LEN
  /\ \A i \in 1..ESP_GATT_MAX_ATTR_LEN : attr_value["D1"][i] = "B"
  /\ calls = <<ESP_LOGE("Size too large")>>

----------------------------------------------------------------------------
(* The characteristics of the service (SpecMap) *)

\* C8: the service never holds two characteristics of one UUID: adding a characteristic
\* whose UUID is present leaves the number of characteristics as it is, and the UUID
\* still finds the characteristic that was there.
C8_NoDuplicateUuid ==
  /\ [][\A c \in Chars :
          (addCharacteristic(c) /\ getCharacteristic(CharUUID(c)) # NULL) =>
            /\ Cardinality(m_characteristicMap') = Cardinality(m_characteristicMap)
            /\ getByUUID(m_characteristicMap', CharUUID(c)) = getCharacteristic(CharUUID(c))
            /\ getCharacteristic(CharUUID(c)) \in m_characteristicMap']_vars
  /\ [](\A a, b \in m_characteristicMap : CharUUID(a) = CharUUID(b) => a = b)

\* C3 was added first; a characteristic of its UUID was refused afterwards.
C8_Witness ==
  /\ m_characteristicMap = {"C3"}
  /\ getCharacteristic("U1") = "C3"
  /\ calls = <<ESP_LOGE("already have one with this UUID")>>

\* C9: a characteristic-added event with the service's handle gives its handle to the
\* characteristic of its UUID, which is then found by that handle, and to no other
\* characteristic; when no characteristic has the UUID no handle is given or indexed.
C9_AddCharAssignsOne ==
  [][( /\ Handled
       /\ event.type = "ESP_GATTS_ADD_CHAR_EVT"
       /\ event.service_handle = m_handle )
     => LET pCharacteristic == getCharacteristic(event.char_uuid) IN
        IF pCharacteristic # NULL
          THEN /\ char_handle' = [char_handle EXCEPT ![pCharacteristic] = event.attr_handle]
               /\ m_handleMap'[event.attr_handle] = pCharacteristic
               /\ \A h \in Handles \ {event.attr_handle} : m_handleMap'[h] = m_handleMap[h]
          ELSE /\ char_handle' = char_handle
               /\ m_handleMap' = m_handleMap]_vars

\* Both characteristics of the service have got their handles from events.
C9_Witness ==
  /\ m_handle = 1
  /\ m_characteristicMap = {"C1", "C2"}
  /\ char_handle["C1"] = 1 /\ char_handle["C2"] = 2 /\ char_handle["C3"] = 0
  /\ m_handleMap[1] = "C1" /\ m_handleMap[2] = "C2"
  /\ event = NoEvent /\ calls = <<GiveCall("free"), ForwardCall>>

----------------------------------------------------------------------------
(* The serialization mutex and the service handle (Spec) *)

\* Event e releases the mutex: a service-created event of the service's UUID, or a
\* characteristic-added event that has the service's handle or that runs on into the
\* service-created case and is read there as having the service's UUID.
Releases(e) ==
  \/ e.type = "ESP_GATTS_CREATE_EVT" /\ e.uuid = ServiceUUID
  \/ /\ e.type = "ESP_GATTS_ADD_CHAR_EVT"
     /\ (e.service_handle = m_handle \/ e.aliasUuidEquals)

C10_CreateEvtOnlyForOwnUuid ==
  [][( Handled /\ event.type = "ESP_GATTS_CREATE_EVT" )
     => IF event.uuid = ServiceUUID
          THEN m_handle' = event.service_handle /\ m_serializeMutex' = "free"
          ELSE m_handle' = m_handle /\ m_serializeMutex' = m_serializeMutex]_vars

\* The service has got its handle from the event that released the mutex.
C10_Witness ==
  /\ m_handle = 2 /\ createEvtSeen
  /\ m_serializeMutex = "free"
  /\ event = NoEvent /\ calls = <<GiveCall("taken"), ForwardCall>>

----------------------------------------------------------------------------
(* BLEService::start (Spec) *)

\* The characteristics of a map in the order of its iteration
Sorted(map) ==
  CHOOSE q \in [1..Cardinality(map) -> map] :
    \A i, j \in 1..Cardinality(map) : i < j => CharRank(q[i]) < CharRank(q[j])

\* C11: a start() whose start-service request succeeds has, when it returns, asked every
\* characteristic of the map once and in the order of the map's iteration, and in the
\* step in which a characteristic is asked it becomes the last created characteristic;
\* a start() whose request fails returns at once, asks no characteristic and leaves the
\* last created characteristic as it is (it changes only when a characteristic is asked).
C11_StartAsksEachInOrder ==
  [][/\ \A errRc \in ErrRc :
          start(errRc) =>
            /\ m_lastCreatedCharacteristic' = m_lastCreatedCharacteristic
            /\ \A i \in 1..Len(calls') : calls'[i].api # "esp_ble_gatts_add_char"
            /\ errRc # "ESP_OK" => pc' = "idle" /\ asked' = <<>>
            /\ (errRc = "ESP_OK" /\ pc' = "idle") => asked' = Sorted(m_characteristicMap)
     /\ (pc = "start" /\ pc' = "idle") => asked' = Sorted(m_characteristicMap)
     /\ (asked' # asked /\ asked' # <<>>) =>
          \E c \in m_characteristicMap :
            /\ asked' = Append(asked, c)
            /\ m_lastCreatedCharacteristic' = c
            /\ calls' = <<CharExecuteCreateCall(c)>>
     /\ m_lastCreatedCharacteristic' # m_lastCreatedCharacteristic => asked' # asked
     /\ m_characteristicMap' # m_characteristicMap => pc = "idle"]_vars

\* start() has returned after it asked the two characteristics of the service in the
\* order of the map, the second one last.
C11_Witness ==
  /\ pc = "idle" /\ m_characteristicMap = {"C1", "C2"}
  /\ asked = <<"C1", "C2">>
  /\ m_lastCreatedCharacteristic = "C2"
  /\ calls = <<CharExecuteCreateCall("C2")>>

----------------------------------------------------------------------------
(* BLEDescriptor::executeCreate (SpecDesc) *)

\* The requests to create a descriptor among the calls of a step
DescrRequests(cs) == SelectSeq(cs, LAMBDA c : c.api = "esp_ble_gatts_add_char_descr")

\* C13: a call of the descriptor's executeCreate(pCharacteristic) that returns has, when
\* the handle is not 0, asked the stack for nothing and left the owning characteristic
\* and the handle as they were; when the handle is 0 it has recorded pCharacteristic as
\* the owning characteristic, asked the stack once to create the descriptor and left
\* the handle at 0.
C13_CreateOnlyWithoutHandle ==
  [][\A d \in Descs : \A c \in {"C1", "C2"} : \A errRc \in ErrRc :
       (executeCreate(d, c, errRc) /\ ~crashed') =>
         IF desc_handle[d] # 0
           THEN /\ DescrRequests(calls') = <<>>
                /\ m_pCharacteristic' = m_pCharacteristic
                /\ desc_handle' = desc_handle
           ELSE /\ m_pCharacteristic'[d] = c
                /\ Len(DescrRequests(calls')) = 1
                /\ DescrRequests(calls')[1].uuid = getUUID(d)
                /\ desc_handle'[d] = 0]_vars

\* executeCreate was called for a descriptor that had got a handle: it has logged the
\* error, and the descriptor has its owner and its handle.
C13_Witness ==
  /\ desc_handle["D2"] = 2 /\ m_pCharacteristic["D2"] = "C2"
  /\ calls = <<ESP_LOGE("Descriptor already has a handle.")>>
  /\ ~crashed

----------------------------------------------------------------------------
(* The forwarding of events to the characteristics (Spec) *)

\* The calls of m_characteristicMap.handleGATTServerEvent among the calls of a step
Forwards(cs) == SelectSeq(cs, LAMBDA c : c = ForwardCall)

\* C12: the handler of every event, of whatever type and whether the service's switch
\* matched it or not (the case of a characteristic that is not found included), calls
\* m_characteristicMap.handleGATTServerEvent once, after the service's own calls, and
\* the event reaches the descriptors of the contained characteristics: a read event
\* that asks for a response gets one from each of them that has the event's handle.
\* No other step forwards anything.
C12_ForwardedOnce ==
  [][/\ Handled =>
          /\ Len(Forwards(calls')) = 1
          /\ \A i \in 1..Len(calls') :
               calls'[i].api = "give"
                 => \E j \in (i + 1)..Len(calls') : calls'[j] = ForwardCall
          /\ (event.type = "ESP_GATTS_READ_EVT" /\ event.need_rsp) =>
               Len(Responses(calls')) =
                 Cardinality({d \in Reached : desc_handle[d] = event.handle})
     /\ (~Handled /\ calls' # calls) => Forwards(calls') = <<>>]_vars

\* The handler of a characteristic-added event did not find the characteristic: it has
\* logged the error, given the mutex and forwarded the event.
C12_Witness ==
  /\ event = NoEvent
  /\ calls = <<ESP_LOGE("Expected to find characteristic"), GiveCall("taken"), ForwardCall>>

----------------------------------------------------------------------------
(* The creation of the characteristics (Spec) *)

\* The characteristics whose creation start() has requested and that have got no handle
\* from a characteristic-added event
InFlight == {c \in m_characteristicMap : char_service[c] # NULL /\ char_handle[c] = 0}

\* C14: at most one creation of a characteristic of the service is in flight at any
\* time: start() requests the creation of the next characteristic only after the
\* characteristic-added event of the one before was delivered.
C14_OneCreationInFlight == Cardinality(InFlight) <= 1

----------------------------------------------------------------------------
(* The life of the service *)

\* C15 (SpecMap): once a service-created event has made the service's handle non-zero,
\* no later step changes the handle.
C15_ServiceHandleAssignedOnce ==
  [][(createEvtSeen /\ m_handle # 0) => m_handle' = m_handle]_vars

\* The state of the service: 0 Unassigned, 1 Creating (mutex taken), 2 Created (handle
\* set), 3 Starting (start() is in its loop), 4 Started (start() has asked
\* characteristics and returned).
SvcRank ==
  CASE pc = "start" -> 3
    [] pc # "start" /\ m_lastCreatedCharacteristic # NULL -> 4
    [] pc # "start" /\ m_lastCreatedCharacteristic = NULL /\ m_handle # 0 -> 2
    [] OTHER -> IF m_serializeMutex = "taken" THEN 1 ELSE 0

\* C16 (Spec): the service never goes back to an earlier state, and start() asks the
\* stack to start the service only when the handle is set and the service has not been
\* started.
C16_StatesInOrder ==
  [][/\ SvcRank' >= SvcRank
     /\ \A errRc \in ErrRc : start(errRc) => (m_handle # 0 /\ SvcRank = 2)]_vars

\* C17 (Spec): a characteristic-added event whose service handle is not the service's
\* changes neither the service's handle nor the mutex nor the handle of a characteristic
\* nor the index by handle.
C17_OtherServiceNoEffect ==
  [][( /\ Handled
       /\ event.type = "ESP_GATTS_ADD_CHAR_EVT"
       /\ event.service_handle # m_handle )
     => /\ m_handle' = m_handle
        /\ m_serializeMutex' = m_serializeMutex
        /\ char_handle' = char_handle
        /\ m_handleMap' = m_handleMap]_vars

\* C18 (Spec): when esp_ble_gatts_create_service fails, executeCreate returns with the
\* mutex free, so that a later executeCreate can take it without an event.
C18_FailedCreateFreesMutex ==
  [][ExecuteCreateTake("ESP_FAIL") => m_serializeMutex' = "free"]_vars

\* C19 (SpecDesc): a write event, whatever its handle, leaves the length and the value
\* of every descriptor without a handle as they are, and no response is sent for a
\* descriptor without a handle (a response carries its descriptor's handle).
C19_WriteIgnoredWhenUnassigned ==
  [][( Handled /\ event.type = "ESP_GATTS_WRITE_EVT" )
     => /\ \A d \in Descs :
             desc_handle[d] = 0 =>
               attr_len'[d] = attr_len[d] /\ attr_value'[d] = attr_value[d]
        /\ \A i \in 1..Len(Responses(calls')) : Responses(calls')[i].handle # 0]_vars

\* C20 (Spec): a service-created, characteristic-added or descriptor-added event whose
\* status is not ESP_GATT_OK changes no handle of the service, of a characteristic or
\* of a descriptor.
C20_FailedEventAssignsNothing ==
  [][( /\ Handled
       /\ event.type \in {"ESP_GATTS_CREATE_EVT", "ESP_GATTS_ADD_CHAR_EVT",
                          "ESP_GATTS_ADD_CHAR_DESCR_EVT"}
       /\ event.status # "ESP_GATT_OK" )
     => /\ m_handle' = m_handle
        /\ char_handle' = char_handle
        /\ desc_handle' = desc_handle]_vars

====
